---------------------------- MODULE Spec2Model ----------------------------
(***************************************************************************)
(* ActionTracker of src/screen_action_recorder.py: the aggregator that     *)
(* turns pointer and key events into Actions.  Four tasks run over one     *)
(* shared tracker: the pointer listener ("ptr", on_click), the keyboard    *)
(* listener ("key", on_press / on_release), the watchdog thread ("wd",     *)
(* _flush_checker) and the main thread ("main", stop).  A task's position  *)
(* is pc[t]; a step of a task is one access to shared state.               *)
(*                                                                         *)
(* Time is counted in ticks of 0.5 s, the watchdog's sleep (line 414), so  *)
(* TYPING_GAP = 5.0 s (line 16) is 10 ticks.  Optional numbers (float |    *)
(* None, int | None) use None == -1; optional tuples are sequences of      *)
(* length 0 or 1.  A description is the sequence of the string fragments   *)
(* the code concatenates.                                                  *)
(***************************************************************************)
EXTENDS Integers, Sequences, FiniteSets, TLC

\* ------------------------------------------------------------------ bounds
MaxEvents == 3
MaxTicks == 1
MaxKeyEvents == 4
MaxTimingTicks == 11
MaxTimingKeys == 3
MaxPhraseEvents == 4
MaxComboEvents == 4
MaxWatchEvents == 4
MaxWatchJumps == 2

\* --------------------------------------------------------- program constants
TYPING_GAP == 10
FLUSH_SLEEP == 1
None == -1

MOD_ORDER == <<"ctrl", "command", "option", "shift">>

SPECIAL_TYPING_KEYS ==
  [enter |-> "\n", backspace |-> "<BACKSPACE>", delete |-> "<DELETE>",
   tab |-> "\t", space |-> " "]

\* keys the keyboard listener can deliver: members of keyboard.Key, which
\* have a name and no `char`, and keyboard.KeyCode values, which have a
\* `char` (possibly None, here "") and print as "<vk>"
Key(n) == [kind |-> "Key", char |-> "", name |-> n]
KeyCode(c) == [kind |-> "KeyCode", char |-> c, name |-> ""]
DeadKeyCode == [kind |-> "KeyCode", char |-> "", name |-> "<63>"]
CmdKeys == {Key("cmd"), Key("cmd_r")}
CtrlKeys == {Key("ctrl"), Key("ctrl_r")}
ShiftKeys == {Key("shift"), Key("shift_r")}
AltKeys == {Key("alt"), Key("alt_r")}
ModifierKeys == CmdKeys \cup CtrlKeys \cup ShiftKeys \cup AltKeys
PrintableKeys == {KeyCode("a"), KeyCode("b"), KeyCode("c")}
SpecialKeys == {Key(n) : n \in DOMAIN SPECIAL_TYPING_KEYS}
OtherKeys == {Key("esc"), Key("f1"), DeadKeyCode}

Buttons == {"left", "right", "middle"}
TrackedButtons == {"left", "right"}
Points == {<<10, 10>>, <<50, 50>>, <<10, 50>>}

Tasks == {"ptr", "key", "wd", "main"}

\* time.perf_counter() when main constructs the tracker (line 525)
Origins == {3}

VARIABLES
  clock,             \* time.perf_counter(), in ticks
  origin,            \* self.origin
  debug,             \* self.debug (screenshots_dir is set exactly when debug)
  actions,           \* self.actions
  ss_requests,       \* self._ss_requests
  ss_idx,            \* self._ss_idx
  typing_start,      \* self._typing_start
  last_key_ts,       \* self._last_key_ts
  typed_chars,       \* self._typed_chars
  typing_id,         \* self._typing_id
  command_down, ctrl_down, shift_down, option_down,
  active_mod_block,  \* self._active_mod_block
  click_start,       \* self._click_start
  stop_check,        \* self._stop_check
  typing_lock,       \* holder of self._typing_lock, or "free"
  pc,                \* position of each task
  loc,               \* locals of each task: now/ts, _next_idx's i and the
                     \* value `+=` loaded, the caller _next_idx returns to,
                     \* whether _begin_or_continue_typing opened a phrase,
                     \* the watchdog's wake-up time
  p_ev,              \* the pointer event being handled
  k_ev,              \* the key event being handled
  held,              \* env: the physical modifier keys that are down
  nkey, nptr,        \* env: events delivered so far
  h_idx,             \* history: the values _next_idx has returned
  h_dup,             \* history: _next_idx returned a value a second time
  h_tokens,          \* history: the phrases as typed, one token list each
  h_holds,           \* history: the modifier-set spans that have ended
  h_used,            \* history: non-modifier press since the set last changed
  h_fin,             \* history: _finalize_typing calls completed since the
                     \* last token was appended (counted up to 2)
  h_press,           \* history: per button, the latest press not yet released
  h_consumed,        \* history: the press the release being handled matches
  h_arrived,         \* history: the typing tokens on_press has received
  h_nonmod           \* history: a non-modifier key has been pressed

tracker == <<actions, ss_requests, ss_idx, typing_start, last_key_ts,
             typed_chars, typing_id, command_down, ctrl_down, shift_down,
             option_down, active_mod_block, click_start, stop_check,
             typing_lock>>
typing == <<typing_start, last_key_ts, typed_chars, typing_id>>
modflags == <<command_down, ctrl_down, shift_down, option_down>>
env == <<held, nkey, nptr>>
hist == <<h_idx, h_dup, h_tokens, h_holds, h_used, h_fin>>
hist2 == <<h_press, h_consumed, h_arrived, h_nonmod>>
vars == <<clock, origin, debug, tracker, pc, loc, p_ev, k_ev, env, hist,
          hist2>>

\* ----------------------------------------------------------------- helpers
RECURSIVE Join(_, _)
\* sep.join(parts), as the sequence of fragments
Join(sep, parts) ==
  IF Len(parts) = 0 THEN <<>>
  ELSE IF Len(parts) = 1 THEN <<parts[1]>>
  ELSE <<parts[1], sep>> \o Join(sep, Tail(parts))

Action(kind, description, start, end, idx) ==
  [kind |-> kind, description |-> description, start |-> start,
   end |-> end, ss_idx |-> idx]

\* _capture: the request queue after _capture(idx, phase, rel_ts)
Capture(q, idx, phase, rel_ts) ==
  IF ~debug THEN q ELSE Append(q, <<idx, phase, rel_ts>>)

\* _current_modifiers
CurrentModifiersOf(ctrl, command, option, shift) ==
  (IF ctrl THEN <<"ctrl">> ELSE <<>>) \o
  (IF command THEN <<"command">> ELSE <<>>) \o
  (IF option THEN <<"option">> ELSE <<>>) \o
  (IF shift THEN <<"shift">> ELSE <<>>)

CurrentModifiers ==
  CurrentModifiersOf(ctrl_down, command_down, option_down, shift_down)

ToSet(s) == {s[i] : i \in DOMAIN s}

ModIndex(m) == CHOOSE i \in DOMAIN MOD_ORDER : MOD_ORDER[i] = m

RECURSIVE SortByIndex(_)
\* sorted(mods, key=_MOD_ORDER.index): repeatedly take the least index
SortByIndex(mods) ==
  IF mods = {} THEN <<>>
  ELSE LET m == CHOOSE x \in mods : \A y \in mods : ModIndex(x) <= ModIndex(y)
       IN <<m>> \o SortByIndex(mods \ {m})

SortedMods(mods) == SortByIndex(mods)

\* _key_name: key.char when the key has a non-empty one, else the last
\* dot-separated part of str(key)
KeyName(key) ==
  IF key.kind = "KeyCode" /\ key.char # "" THEN key.char ELSE key.name

\* a classifier that calls a moved gesture a drag
ClickKindDrag(button, sx, sy, x, y) ==
  IF sx # x \/ sy # y THEN "drag"
  ELSE IF button = "left" THEN "left_click"
  ELSE IF button = "right" THEN "right_click" ELSE "middle_click"

\* kind = f"{button.name}_click"
ClickKind(button, sx, sy, x, y) ==
  IF button = "left" THEN "left_click"
  ELSE IF button = "right" THEN "right_click" ELSE "middle_click"

\* desc = f"{mod_prefix}{kind} ({sx},{sy}) -> ({x},{y})"; the fragment
\* ") -> (" stands for the code's ") \u2192 (" with its arrow character
ClickDesc(mods, kind, sx, sy, x, y) ==
  (IF mods # {} THEN Join("+", SortedMods(mods)) \o <<" ">> ELSE <<>>) \o
  <<kind, " (", ToString(sx), ",", ToString(sy), ") -> (",
    ToString(x), ",", ToString(y), ")">>

NoLocals == [now |-> None, i |-> None, tmp |-> None, ret |-> "",
             opened |-> FALSE, wake |-> None]
NoPtrEvent == [x |-> 0, y |-> 0, button |-> "", pressed |-> FALSE, g |-> <<>>]
NoKeyEvent == [key |-> Key(""), down |-> FALSE]

SetPc(t, p) == pc' = [pc EXCEPT ![t] = p]

\* ------------------------------------------------------------------- clock
Tick(d, max) ==
  /\ clock + d <= origin + max
  /\ clock' = clock + d
  /\ UNCHANGED <<origin, debug, tracker, pc, loc, p_ev, k_ev, env, hist, hist2>>

\* --------------------------------------------------------------- _next_idx
\* i = self._ss_idx
IdxRead(t) ==
  /\ pc[t] = "idx_read"
  /\ loc' = [loc EXCEPT ![t].i = ss_idx]
  /\ SetPc(t, "idx_load")
  /\ UNCHANGED <<clock, origin, debug, tracker, p_ev, k_ev, env, hist, hist2>>

\* self._ss_idx += 1, the load
IdxLoad(t) ==
  /\ pc[t] = "idx_load"
  /\ loc' = [loc EXCEPT ![t].tmp = ss_idx]
  /\ SetPc(t, "idx_store")
  /\ UNCHANGED <<clock, origin, debug, tracker, p_ev, k_ev, env, hist, hist2>>

\* self._ss_idx += 1, the store; return i
IdxStoreTo(t, new) ==
  /\ pc[t] = "idx_store"
  /\ ss_idx' = new
  /\ h_idx' = h_idx \cup {loc[t].i}
  /\ h_dup' = (h_dup \/ loc[t].i \in h_idx)
  /\ SetPc(t, loc[t].ret)
  /\ UNCHANGED <<clock, origin, debug, actions, ss_requests, typing,
                 modflags, active_mod_block, click_start, stop_check,
                 typing_lock, loc, p_ev, k_ev, env, h_tokens, h_holds,
                 h_used, h_fin, hist2>>

IdxStore(t) == IdxStoreTo(t, loc[t].tmp + 1)


\* ---------------------------------------------------------------- __init__
InitWith(debugs) ==
  /\ origin \in Origins
  /\ clock = origin
  /\ debug \in debugs
  /\ actions = <<>>
  /\ ss_requests = <<>>
  /\ ss_idx = 1
  /\ typing_start = None /\ last_key_ts = None
  /\ typed_chars = <<>> /\ typing_id = None
  /\ command_down = FALSE /\ ctrl_down = FALSE
  /\ shift_down = FALSE /\ option_down = FALSE
  /\ active_mod_block = <<>>
  /\ click_start = [b \in TrackedButtons |-> <<>>]
  /\ stop_check = FALSE
  /\ typing_lock = "free"
  /\ pc = [t \in Tasks |-> IF t = "wd" THEN "sleep" ELSE "idle"]
  /\ loc = [t \in Tasks |->
             IF t = "wd" THEN [NoLocals EXCEPT !.wake = origin + FLUSH_SLEEP]
             ELSE NoLocals]
  /\ p_ev = NoPtrEvent
  /\ k_ev = NoKeyEvent
  /\ held = {}
  /\ nkey = 0 /\ nptr = 0
  /\ h_idx = {}
  /\ h_dup = FALSE
  /\ h_tokens = <<>>
  /\ h_holds = <<>>
  /\ h_used = FALSE
  /\ h_fin = 0
  /\ h_press = [b \in TrackedButtons |-> <<>>]
  /\ h_consumed = <<>>
  /\ h_arrived = <<>>
  /\ h_nonmod = FALSE

Init == InitWith(BOOLEAN)

\* the listeners deliver events until main leaves the `with` block
Listening == pc["main"] = "idle"

\* -------------------------------------------------------- _finalize_typing
\* where each task continues after its call of _finalize_typing
AfterFin(t) ==
  IF t = "ptr" THEN "click_append"
  ELSE IF t = "key" THEN "idx_read"
  ELSE IF t = "wd" THEN "loop" ELSE "stop_roll"

\* `if phrase:` for phrase = "".join(tokens)
Truthy(tokens) == \E i \in DOMAIN tokens : tokens[i] # ""

TypingDesc(tokens) == <<"typed: '">> \o tokens \o <<"'">>

FinCount(n) == IF n < 2 THEN n + 1 ELSE n

\* with self._typing_lock: if self._typing_start is None: return
FinLock(t) ==
  /\ pc[t] = "fin_lock"
  /\ typing_lock = "free"
  /\ IF typing_start = None
       THEN /\ SetPc(t, AfterFin(t))
            /\ h_fin' = FinCount(h_fin)
            /\ UNCHANGED typing_lock
       ELSE /\ SetPc(t, "fin_body")
            /\ typing_lock' = t
            /\ UNCHANGED h_fin
  /\ UNCHANGED <<clock, origin, debug, actions, ss_requests, ss_idx, typing,
                 modflags, active_mod_block, click_start, stop_check, loc,
                 p_ev, k_ev, env, h_idx, h_dup, h_tokens, h_holds, h_used,
                 hist2>>

\* an end offset taken from the last token
FinEndLastKey(ts) == last_key_ts - origin

\* the end offset of the typing Action and of its end capture
FinEnd(ts) == ts - origin

\* a reset that forgets to clear the token list
FinResetKeepChars == <<None, None, typed_chars, None>>

\* a reset that leaves the phrase open
FinResetNothing == <<typing_start, last_key_ts, typed_chars, typing_id>>

\* the phrase state <<start, last, tokens, id>> after the reset
FinReset == <<None, None, <<>>, None>>

SetTyping(v) ==
  /\ typing_start' = v[1] /\ last_key_ts' = v[2]
  /\ typed_chars' = v[3] /\ typing_id' = v[4]

\* lines 427-444, under the lock
FinBody(t) ==
  /\ pc[t] = "fin_body"
  /\ typing_lock = t
  /\ actions' =
       IF Truthy(typed_chars)
       THEN Append(actions, Action("typing", TypingDesc(typed_chars),
                                   typing_start - origin, FinEnd(loc[t].now),
                                   typing_id))
       ELSE actions
  /\ ss_requests' =
       IF typing_id # None
       THEN Capture(ss_requests, typing_id, "end", FinEnd(loc[t].now))
       ELSE ss_requests
  /\ SetTyping(FinReset)
  /\ typing_lock' = "free"
  /\ h_fin' = FinCount(h_fin)
  /\ h_tokens' =
       IF h_tokens # <<>> /\ ~h_tokens[Len(h_tokens)].closed
       THEN [h_tokens EXCEPT ![Len(h_tokens)].closed = TRUE,
                             ![Len(h_tokens)].fin = loc[t].now]
       ELSE h_tokens
  /\ SetPc(t, AfterFin(t))
  /\ UNCHANGED <<clock, origin, debug, ss_idx, modflags, active_mod_block,
                 click_start, stop_check, loc, p_ev, k_ev, env, h_idx,
                 h_dup, h_holds, h_used, hist2>>

\* ---------------------------------------------------------------- on_click
\* a lookup that leaves the gesture in the dict
PopGestureKeep(cs, button) == cs

\* self._click_start.pop(button.name): the dict afterwards
PopGesture(cs, button) == [cs EXCEPT ![button] = <<>>]

\* a release that appends its Action without the call of line 350
ClickReleaseEntryNoFinalize == "click_append"

\* where a matched release continues after the pop: the call of line 350
ClickReleaseEntry == "fin_lock"

\* line 322, and the branch taken; the release branch pops the gesture
OnClick(button, pt, pressed) ==
  /\ pc["ptr"] = "idle"
  /\ Listening
  /\ nptr' = nptr + 1
  /\ IF pressed /\ button \in TrackedButtons
       THEN /\ p_ev' = [x |-> pt[1], y |-> pt[2], button |-> button,
                        pressed |-> TRUE, g |-> <<>>]
            /\ loc' = [loc EXCEPT !["ptr"].now = clock,
                                  !["ptr"].ret = "click_capture"]
            /\ SetPc("ptr", "idx_read")
            /\ UNCHANGED click_start
       ELSE IF ~pressed /\ button \in DOMAIN click_start
                        /\ click_start[button] # <<>>
       THEN /\ p_ev' = [x |-> pt[1], y |-> pt[2], button |-> button,
                        pressed |-> FALSE, g |-> click_start[button]]
            /\ click_start' = PopGesture(click_start, button)
            /\ loc' = [loc EXCEPT !["ptr"].now = clock]
            /\ SetPc("ptr", ClickReleaseEntry)
       ELSE UNCHANGED <<p_ev, click_start, loc, pc>>
  /\ IF pressed /\ button \in TrackedButtons
       THEN /\ h_press' = [h_press EXCEPT ![button] =
                            <<[x |-> pt[1], y |-> pt[2], t |-> clock,
                              mods |-> ToSet(CurrentModifiers)]>>]
            /\ UNCHANGED h_consumed
       ELSE IF ~pressed /\ button \in TrackedButtons
                        /\ h_press[button] # <<>>
       THEN /\ h_consumed' = h_press[button]
            /\ h_press' = [h_press EXCEPT ![button] = <<>>]
       ELSE UNCHANGED <<h_press, h_consumed>>
  /\ UNCHANGED <<clock, origin, debug, actions, ss_requests, ss_idx, typing,
                 modflags, active_mod_block, stop_check, typing_lock, k_ev,
                 held, nkey, hist, h_arrived, h_nonmod>>

\* lines 327-328
ClickCapture ==
  /\ pc["ptr"] = "click_capture"
  /\ ss_requests' = Capture(ss_requests, loc["ptr"].i, "start",
                            loc["ptr"].now - origin)
  /\ SetPc("ptr", "click_store")
  /\ UNCHANGED <<clock, origin, debug, actions, ss_idx, typing, modflags,
                 active_mod_block, click_start, stop_check, typing_lock,
                 loc, p_ev, k_ev, env, hist, hist2>>

\* the tuple stored for a press
Gesture(x, y, now, idx, mods) ==
  [x |-> x, y |-> y, t0 |-> now, idx |-> idx, mods |-> mods]

\* lines 330-333
ClickStore ==
  /\ pc["ptr"] = "click_store"
  /\ click_start' =
       [click_start EXCEPT ![p_ev.button] =
          <<Gesture(p_ev.x, p_ev.y, loc["ptr"].now, loc["ptr"].i,
                    ToSet(CurrentModifiers))>>]
  /\ SetPc("ptr", "idle")
  /\ loc' = [loc EXCEPT !["ptr"] = NoLocals]
  /\ p_ev' = NoPtrEvent
  /\ UNCHANGED <<clock, origin, debug, actions, ss_requests, ss_idx, typing,
                 modflags, active_mod_block, stop_check, typing_lock, k_ev,
                 env, hist, hist2>>

\* a gesture Action that ends at the press
ClickActionInstant(g, button, x, y, now) ==
  LET kind == ClickKind(button, g.x, g.y, x, y)
  IN Action(kind, ClickDesc(g.mods, kind, g.x, g.y, x, y),
            g.t0 - origin, g.t0 - origin, g.idx)

\* the Action a release appends for the popped gesture g
ClickAction(g, button, x, y, now) ==
  LET kind == ClickKind(button, g.x, g.y, x, y)
  IN Action(kind, ClickDesc(g.mods, kind, g.x, g.y, x, y),
            g.t0 - origin, now - origin, g.idx)

\* lines 351-352
ClickAppend ==
  /\ pc["ptr"] = "click_append"
  /\ LET g == p_ev.g[1]
         a == ClickAction(g, p_ev.button, p_ev.x, p_ev.y, loc["ptr"].now)
     IN /\ actions' = Append(actions, a)
        /\ ss_requests' = Capture(ss_requests, g.idx, "end", a.end)
  /\ SetPc("ptr", "idle")
  /\ loc' = [loc EXCEPT !["ptr"] = NoLocals]
  /\ p_ev' = NoPtrEvent
  /\ h_consumed' = <<>>
  /\ UNCHANGED <<clock, origin, debug, ss_idx, typing, modflags,
                 active_mod_block, click_start, stop_check, typing_lock,
                 k_ev, env, hist, h_press, h_arrived, h_nonmod>>

\* ------------------------------------------------- _update_modifier_state
IsModifier(key) == key \in ModifierKeys

\* the flags <<command, ctrl, shift, option>> after the call
UpdateModifierState(key, down) ==
  IF key \in CmdKeys THEN <<down, ctrl_down, shift_down, option_down>>
  ELSE IF key \in CtrlKeys THEN <<command_down, down, shift_down, option_down>>
  ELSE IF key \in ShiftKeys THEN <<command_down, ctrl_down, down, option_down>>
  ELSE IF key \in AltKeys THEN <<command_down, ctrl_down, shift_down, down>>
  ELSE modflags

SetFlags(f) ==
  /\ command_down' = f[1] /\ ctrl_down' = f[2]
  /\ shift_down' = f[3] /\ option_down' = f[4]

\* _current_modifiers over a flags tuple
ModsOfFlags(f) == CurrentModifiersOf(f[2], f[1], f[4], f[3])

\* history: a modifier event that changes the tracked set ends its span
HoldHistory(f) ==
  IF ModsOfFlags(f) = CurrentModifiers
  THEN UNCHANGED <<h_holds, h_used>>
  ELSE /\ h_holds' = IF CurrentModifiers = <<>> THEN h_holds
                     ELSE Append(h_holds, [mods |-> ToSet(CurrentModifiers),
                                           used |-> h_used])
       /\ h_used' = FALSE

\* ------------------------------------------------- _mark_mod_block_used
\* a press that leaves the active block's flag alone
MarkModBlockIgnored(block) == block

MarkModBlockUsed(block) ==
  IF block # <<>> THEN <<[block[1] EXCEPT !.used = TRUE]>> ELSE block

\* ------------------------------------------------------------- on_press
\* a combo test that counts shift
IsComboContextAnyMod(mods) == mods # <<>>

\* line 371
IsComboContext(mods) ==
  \E i \in DOMAIN mods : mods[i] \in {"command", "ctrl", "option"}

IsPrintableChar(c) == c \notin {"", "\n", "\t", "\r"}

HasPrintableChar(key) == key.kind = "KeyCode" /\ IsPrintableChar(key.char)

IsSpecialTypingKey(key) ==
  key.kind = "Key" /\ key.name \in DOMAIN SPECIAL_TYPING_KEYS

\* the token on_press hands to _begin_or_continue_typing
Token(key) ==
  IF HasPrintableChar(key) THEN key.char ELSE SPECIAL_TYPING_KEYS[key.name]

\* a combo branch without the call of line 376
ComboEntryNoFinalize == "idx_read"

\* where the combo branch continues after line 375: the call of line 376
ComboEntry == "fin_lock"

\* lines 358-392 up to the first call that touches state shared with
\* another task
OnPress(key) ==
  /\ pc["key"] = "idle"
  /\ Listening
  /\ IsModifier(key) => key \notin held
  /\ nkey' = nkey + 1
  /\ UNCHANGED nptr
  /\ IF IsModifier(key)
       THEN /\ SetFlags(UpdateModifierState(key, TRUE))
            /\ held' = held \cup {key}
            /\ HoldHistory(UpdateModifierState(key, TRUE))
            /\ k_ev' = [key |-> key, down |-> TRUE]
            /\ loc' = [loc EXCEPT !["key"].now = clock]
            /\ SetPc("key", "roll")
            /\ UNCHANGED active_mod_block
       ELSE /\ active_mod_block' = MarkModBlockUsed(active_mod_block)
            /\ h_used' = (h_used \/ CurrentModifiers # <<>>)
            /\ UNCHANGED <<modflags, held, h_holds>>
            /\ IF IsComboContext(CurrentModifiers)
                 THEN /\ k_ev' = [key |-> key, down |-> TRUE]
                      /\ loc' = [loc EXCEPT !["key"].now = clock,
                                            !["key"].ret = "combo_append"]
                      /\ SetPc("key", ComboEntry)
               ELSE IF HasPrintableChar(key) \/ IsSpecialTypingKey(key)
                 THEN /\ k_ev' = [key |-> key, down |-> TRUE]
                      /\ loc' = [loc EXCEPT !["key"].now = clock]
                      /\ SetPc("key", "type_lock")
               ELSE UNCHANGED <<k_ev, loc, pc>>
  /\ h_arrived' =
       IF /\ ~IsModifier(key)
          /\ ~IsComboContext(CurrentModifiers)
          /\ HasPrintableChar(key) \/ IsSpecialTypingKey(key)
       THEN Append(h_arrived, Token(key))
       ELSE h_arrived
  /\ h_nonmod' = (h_nonmod \/ ~IsModifier(key))
  /\ UNCHANGED <<clock, origin, debug, actions, ss_requests, ss_idx, typing,
                 click_start, stop_check, typing_lock, p_ev, h_idx, h_dup,
                 h_tokens, h_fin, h_press, h_consumed>>

\* the key_combo Action of lines 375-380
ComboAction(mods, key, now, idx) ==
  Action("key_combo", Join("+", mods \o <<KeyName(key)>>),
         now - origin, now - origin, idx)

\* lines 379-382
ComboAppend ==
  /\ pc["key"] = "combo_append"
  /\ LET a == ComboAction(CurrentModifiers, k_ev.key, loc["key"].now,
                          loc["key"].i)
     IN /\ actions' = Append(actions, a)
        /\ ss_requests' =
             Capture(Capture(ss_requests, a.ss_idx, "start", a.start),
                     a.ss_idx, "end", a.end)
  /\ SetPc("key", "idle")
  /\ loc' = [loc EXCEPT !["key"] = NoLocals]
  /\ k_ev' = NoKeyEvent
  /\ UNCHANGED <<clock, origin, debug, ss_idx, typing, modflags,
                 active_mod_block, click_start, stop_check, typing_lock,
                 p_ev, env, hist, hist2>>

\* ------------------------------------------------ _begin_or_continue_typing
\* with self._typing_lock: if self._typing_start is None: ... = ts
TypeLock ==
  /\ pc["key"] = "type_lock"
  /\ typing_lock = "free"
  /\ typing_lock' = "key"
  /\ IF typing_start = None
       THEN /\ typing_start' = loc["key"].now
            /\ loc' = [loc EXCEPT !["key"].opened = TRUE,
                                  !["key"].ret = "type_open"]
            /\ SetPc("key", "idx_read")
       ELSE /\ SetPc("key", "type_append")
            /\ UNCHANGED <<typing_start, loc>>
  /\ UNCHANGED <<clock, origin, debug, actions, ss_requests, ss_idx,
                 last_key_ts, typed_chars, typing_id, modflags,
                 active_mod_block, click_start, stop_check, p_ev, k_ev, env,
                 hist, hist2>>

\* lines 399-400, after _next_idx returned
TypeOpen ==
  /\ pc["key"] = "type_open"
  /\ typing_id' = loc["key"].i
  /\ ss_requests' = Capture(ss_requests, loc["key"].i, "start",
                            loc["key"].now - origin)
  /\ SetPc("key", "type_append")
  /\ UNCHANGED <<clock, origin, debug, actions, ss_idx, typing_start,
                 last_key_ts, typed_chars, modflags, active_mod_block,
                 click_start, stop_check, typing_lock, loc, p_ev, k_ev, env,
                 hist, hist2>>

\* self._typed_chars.append(token)
AppendToken(chars, token) == Append(chars, token)

\* a token that leaves the time of the last token as it was
LastKeyStampKept(ts) == last_key_ts

\* self._last_key_ts = ts
LastKeyStamp(ts) == ts

\* lines 401-402, and the lock released
TypeAppend ==
  /\ pc["key"] = "type_append"
  /\ typed_chars' = AppendToken(typed_chars, Token(k_ev.key))
  /\ last_key_ts' = LastKeyStamp(loc["key"].now)
  /\ typing_lock' = "free"
  /\ h_tokens' =
       IF h_tokens # <<>> /\ ~h_tokens[Len(h_tokens)].closed
       THEN [h_tokens EXCEPT ![Len(h_tokens)].tokens =
               Append(@, Token(k_ev.key)),
             ![Len(h_tokens)].times = Append(@, loc["key"].now)]
       ELSE Append(h_tokens, [tokens |-> <<Token(k_ev.key)>>,
                              times |-> <<loc["key"].now>>,
                              closed |-> FALSE, fin |-> None])
  /\ h_fin' = 0
  /\ SetPc("key", "idle")
  /\ loc' = [loc EXCEPT !["key"] = NoLocals]
  /\ k_ev' = NoKeyEvent
  /\ UNCHANGED <<clock, origin, debug, actions, ss_requests, ss_idx,
                 typing_start, typing_id, modflags, active_mod_block,
                 click_start, stop_check, p_ev, env, h_idx, h_dup, h_holds,
                 h_used, hist2>>

\* ------------------------------------------------------------ on_release
OnRelease(key) ==
  /\ pc["key"] = "idle"
  /\ Listening
  /\ IsModifier(key) => key \in held
  /\ nkey' = nkey + 1
  /\ UNCHANGED nptr
  /\ IF IsModifier(key)
       THEN /\ SetFlags(UpdateModifierState(key, FALSE))
            /\ held' = held \ {key}
            /\ HoldHistory(UpdateModifierState(key, FALSE))
            /\ k_ev' = [key |-> key, down |-> FALSE]
            /\ loc' = [loc EXCEPT !["key"].now = clock]
            /\ SetPc("key", "roll")
       ELSE UNCHANGED <<modflags, held, h_holds, h_used, k_ev, loc, pc>>
  /\ UNCHANGED <<clock, origin, debug, actions, ss_requests, ss_idx, typing,
                 active_mod_block, click_start, stop_check, typing_lock,
                 p_ev, h_idx, h_dup, h_tokens, h_fin, hist2>>

\* ------------------------------------------ _maybe_rollover_modifier_block
\* the task's position once its handler returns
Returned(t) == IF t = "main" THEN "done" ELSE "idle"

\* a modifier_hold Action that ends where it starts
HoldActionNoSpan(block, ts) ==
  Action("modifier_hold", Join("+", SortedMods(block.mods)) \o <<" held">>,
         block.t0 - origin, block.t0 - origin, block.idx)

\* the modifier_hold Action of lines 300-305
HoldAction(block, ts) ==
  Action("modifier_hold", Join("+", SortedMods(block.mods)) \o <<" held">>,
         block.t0 - origin, ts - origin, block.idx)

\* line 299: whether closing the block records it
HoldRecorded(block) == block.used

\* lines 292-295: whether the block is rolled over
RollNeeded(block, current) == block = <<>> \/ current # block[1].mods

\* lines 285-310, up to the call of _next_idx
Roll(t) ==
  /\ pc[t] = "roll"
  /\ LET current == ToSet(CurrentModifiers)
         block == active_mod_block
         ts == loc[t].now
     IN IF (block = <<>> /\ current = {}) \/ ~RollNeeded(block, current)
        THEN /\ SetPc(t, Returned(t))
             /\ loc' = [loc EXCEPT ![t] = NoLocals]
             /\ k_ev' = NoKeyEvent
             /\ UNCHANGED <<actions, ss_requests, active_mod_block>>
        ELSE /\ IF block # <<>> /\ HoldRecorded(block[1])
                  THEN /\ actions' = Append(actions, HoldAction(block[1], ts))
                       /\ ss_requests' = Capture(ss_requests, block[1].idx,
                                                 "end", ts - origin)
                  ELSE UNCHANGED <<actions, ss_requests>>
             /\ active_mod_block' = <<>>
             /\ IF current # {}
                  THEN /\ loc' = [loc EXCEPT ![t].ret = "roll_open"]
                       /\ SetPc(t, "idx_read")
                       /\ UNCHANGED k_ev
                  ELSE /\ SetPc(t, Returned(t))
                       /\ loc' = [loc EXCEPT ![t] = NoLocals]
                       /\ k_ev' = NoKeyEvent
  /\ UNCHANGED <<clock, origin, debug, ss_idx, typing, modflags, click_start,
                 stop_check, typing_lock, p_ev, env, hist, hist2>>

\* a block that opens already flagged
NewBlockUsed(current, ts, idx) ==
  [mods |-> current, t0 |-> ts, idx |-> idx, used |-> TRUE]

\* the block opened by line 314
NewBlock(current, ts, idx) ==
  [mods |-> current, t0 |-> ts, idx |-> idx, used |-> FALSE]

\* lines 312-314, after _next_idx returned
RollOpen(t) ==
  /\ pc[t] = "roll_open"
  /\ ss_requests' = Capture(ss_requests, loc[t].i, "start",
                            loc[t].now - origin)
  /\ active_mod_block' =
       <<NewBlock(ToSet(CurrentModifiers), loc[t].now, loc[t].i)>>
  /\ SetPc(t, Returned(t))
  /\ loc' = [loc EXCEPT ![t] = NoLocals]
  /\ k_ev' = NoKeyEvent
  /\ UNCHANGED <<clock, origin, debug, actions, ss_idx, typing, modflags,
                 click_start, stop_check, typing_lock, p_ev, env, hist, hist2>>

\* ---------------------------------------------------------- _flush_checker
\* line 413 and the sleep entered, or the thread's end
WdLoop(p) ==
  IF stop_check
  THEN /\ SetPc("wd", "done")
       /\ loc' = [loc EXCEPT !["wd"] = NoLocals]
  ELSE /\ SetPc("wd", "sleep")
       /\ loc' = [loc EXCEPT !["wd"] =
                    [NoLocals EXCEPT !.wake = clock + FLUSH_SLEEP]]

\* the sleep is over once 0.5 s have passed; lines 416-417, and when they
\* fail the next round of the loop
WdWake ==
  /\ pc["wd"] = "sleep"
  /\ clock >= loc["wd"].wake
  /\ IF typing_start # None /\ last_key_ts # None
       THEN /\ SetPc("wd", "check_gap")
            /\ loc' = [loc EXCEPT !["wd"] = NoLocals]
       ELSE WdLoop("sleep")
  /\ UNCHANGED <<clock, origin, debug, tracker, p_ev, k_ev, env, hist, hist2>>

\* line 418: whether the phrase is stale
Stale(now, last) == (now - last) > TYPING_GAP

\* line 418; subtracting None raises TypeError, which ends the thread
WdCheckGap ==
  /\ pc["wd"] = "check_gap"
  /\ IF last_key_ts = None
       THEN SetPc("wd", "crashed") /\ UNCHANGED loc
     ELSE IF Stale(clock, last_key_ts)
       THEN SetPc("wd", "call_fin") /\ UNCHANGED loc
     ELSE WdLoop("check_gap")
  /\ UNCHANGED <<clock, origin, debug, tracker, p_ev, k_ev, env, hist, hist2>>

\* line 420: the argument is read, then _finalize_typing is entered
WdCall ==
  /\ pc["wd"] = "call_fin"
  /\ loc' = [loc EXCEPT !["wd"].now = clock]
  /\ SetPc("wd", "fin_lock")
  /\ UNCHANGED <<clock, origin, debug, tracker, p_ev, k_ev, env, hist, hist2>>

\* the loop's next round after _finalize_typing returned
WdNext ==
  /\ pc["wd"] = "loop"
  /\ WdLoop("loop")
  /\ UNCHANGED <<clock, origin, debug, tracker, p_ev, k_ev, env, hist, hist2>>

\* -------------------------------------------------------------------- stop
\* the pending gestures, as sequences of their buttons in a fixed order
PendingButtons ==
  (IF click_start["left"] # <<>> THEN <<"left">> ELSE <<>>) \o
  (IF click_start["right"] # <<>> THEN <<"right">> ELSE <<>>)

\* a stop() that finalizes the pending gestures where they were pressed
StopActionsFlushed ==
  actions \o
  [i \in DOMAIN PendingButtons |->
     LET b == PendingButtons[i]
         g == click_start[b][1]
     IN ClickAction(g, b, g.x, g.y, clock)]

\* the log once stop() is under way: stop() has no code for _click_start,
\* so nothing is appended for a pending gesture
StopActions == actions

\* lines 448-449: main calls stop() once both listeners have been joined
Stop ==
  /\ pc["main"] = "idle"
  /\ pc["ptr"] = "idle" /\ pc["key"] = "idle"
  /\ stop_check' = TRUE
  /\ actions' = StopActions
  /\ loc' = [loc EXCEPT !["main"].now = clock]
  /\ SetPc("main", "fin_lock")
  /\ UNCHANGED <<clock, origin, debug, ss_requests, ss_idx, typing,
                 modflags, active_mod_block, click_start, typing_lock, p_ev,
                 k_ev, env, hist, hist2>>

\* line 451: the argument is read, then the rollover is entered
StopRoll ==
  /\ pc["main"] = "stop_roll"
  /\ loc' = [loc EXCEPT !["main"].now = clock]
  /\ SetPc("main", "roll")
  /\ UNCHANGED <<clock, origin, debug, tracker, p_ev, k_ev, env, hist, hist2>>


\* ------------------------------------------------------------ specifications
\* the steps of _next_idx, _finalize_typing and the rollover, by any task
IdxStep == \E t \in {"ptr", "key"} : IdxRead(t) \/ IdxLoad(t) \/ IdxStore(t)
FinStep == \E t \in Tasks : FinLock(t) \/ FinBody(t)
RollStep == \E t \in {"key", "main"} : Roll(t) \/ RollOpen(t)
PtrStep == ClickCapture \/ ClickStore \/ ClickAppend
TypeStep == TypeLock \/ TypeOpen \/ TypeAppend
KeyStep == ComboAppend \/ TypeStep
MainRoll == Roll("main")
WdStep == WdWake \/ WdCheckGap \/ WdCall \/ WdNext
StopStep == Stop \/ StopRoll

\* Spec: the four tasks interleaved step by step; the clock advances in
\* jumps longer than the typing gap
ConcKeysDown == {Key("cmd"), KeyCode("a"), Key("enter")}
ConcKeysUp == {Key("cmd")}
ConcPoints == {<<10, 10>>}

PressEvent ==
  \E k \in ConcKeysDown : nkey + nptr < MaxEvents /\ OnPress(k)
ReleaseEvent ==
  \E k \in ConcKeysUp : nkey + nptr < MaxEvents /\ OnRelease(k)
ClickEvent ==
  \E pt \in ConcPoints, pressed \in BOOLEAN :
    nkey + nptr < MaxEvents /\ OnClick("left", pt, pressed)
LongTick == Tick(TYPING_GAP + 1, MaxTicks * (TYPING_GAP + 1))

Next ==
  \/ PressEvent
  \/ ReleaseEvent
  \/ ClickEvent
  \/ LongTick
  \/ IdxStep
  \/ FinStep
  \/ RollStep
  \/ PtrStep
  \/ KeyStep
  \/ WdStep
  \/ StopStep

Spec == InitWith({TRUE}) /\ [][Next]_vars


\* SpecGesture: the pointer listener over all buttons and points, with shift
\* and a typing key from the keyboard listener; one event is handled at a
\* time, time in single ticks
BothIdle == pc["ptr"] = "idle" /\ pc["key"] = "idle"
GestureKeys == {Key("shift"), KeyCode("a")}

GesturePressEvent ==
  \E k \in GestureKeys :
    BothIdle /\ nkey + nptr < MaxEvents /\ OnPress(k)
GestureReleaseEvent ==
  BothIdle /\ nkey + nptr < MaxEvents /\ OnRelease(Key("shift"))
GestureClickEvent ==
  \E b \in Buttons, pt \in Points, pressed \in BOOLEAN :
    BothIdle /\ nkey + nptr < MaxEvents /\ OnClick(b, pt, pressed)
ShortTick == Tick(1, MaxTicks)

NextGesture ==
  \/ GesturePressEvent
  \/ GestureReleaseEvent
  \/ GestureClickEvent
  \/ ShortTick
  \/ IdxStep
  \/ FinStep
  \/ RollStep
  \/ PtrStep
  \/ TypeStep

SpecGesture == Init /\ [][NextGesture]_vars

\* SpecKeys: the keyboard listener over modifiers in both variants, typing
\* keys and ignored keys, then stop(); time in single ticks
KeysDown ==
  {Key("shift"), Key("shift_r"), Key("cmd"), KeyCode("a"), Key("f1")}
KeysUp == {Key("shift"), Key("shift_r"), Key("cmd"), KeyCode("a")}

KeysPressEvent ==
  \E k \in KeysDown : nkey < MaxKeyEvents /\ OnPress(k)
KeysReleaseEvent ==
  \E k \in KeysUp : nkey < MaxKeyEvents /\ OnRelease(k)

NextKeys ==
  \/ KeysPressEvent
  \/ KeysReleaseEvent
  \/ ShortTick
  \/ IdxStep
  \/ FinStep
  \/ RollStep
  \/ KeyStep
  \/ StopStep

SpecKeys == Init /\ [][NextKeys]_vars

\* SpecPhrase: typing keys from the keyboard listener against every closer of
\* a phrase (a click release from the pointer listener, the watchdog and
\* stop), interleaved step by step; the clock advances in jumps longer than
\* the typing gap, and a jump counts as an event of the environment
PhraseKeys == {KeyCode("a"), Key("enter")}

PhraseJumps == (clock - origin) \div (TYPING_GAP + 1)
PhraseEvents == nkey + nptr + PhraseJumps

PhrasePressEvent ==
  \E k \in PhraseKeys : PhraseEvents < MaxPhraseEvents /\ OnPress(k)
PhraseClickEvent ==
  \E pt \in ConcPoints, pressed \in BOOLEAN :
    PhraseEvents < MaxPhraseEvents /\ OnClick("left", pt, pressed)
PhraseTick ==
  /\ PhraseEvents < MaxPhraseEvents
  /\ Tick(TYPING_GAP + 1, MaxPhraseEvents * (TYPING_GAP + 1))

NextPhrase ==
  \/ PhrasePressEvent
  \/ PhraseClickEvent
  \/ PhraseTick
  \/ IdxStep
  \/ FinStep
  \/ MainRoll
  \/ PtrStep
  \/ TypeStep
  \/ WdStep
  \/ StopStep

SpecPhrase == InitWith({TRUE}) /\ [][NextPhrase]_vars

\* SpecTiming: typing keys against the watchdog, time in single ticks up to
\* past the typing gap.  The tasks are prompt: time does not pass while a
\* poll is due or under way, so every poll happens 0.5 s after the last, nor
\* while a key press is being handled.
WdPrompt ==
  \/ pc["wd"] \in {"done", "crashed"}
  \/ pc["wd"] = "sleep" /\ clock < loc["wd"].wake

TimingPressEvent ==
  nkey < MaxTimingKeys /\ OnPress(KeyCode("a"))
PromptTick ==
  WdPrompt /\ pc["key"] = "idle" /\ Tick(1, MaxTimingTicks)

NextTiming ==
  \/ TimingPressEvent
  \/ PromptTick
  \/ IdxStep
  \/ FinStep
  \/ MainRoll
  \/ TypeStep
  \/ WdStep
  \/ StopStep

SpecTiming == InitWith({TRUE}) /\ [][NextTiming]_vars

\* SpecCombo: the keyboard listener alone over one key of each modifier and
\* a printable, a special, a named and a char-less key; time in single ticks,
\* and a tick counts as an event of the environment
ComboMods == {Key("cmd"), Key("ctrl"), Key("alt"), Key("shift")}
ComboKeys == {KeyCode("c"), Key("enter"), Key("f1"), DeadKeyCode}
ComboEvents == nkey + (clock - origin)

ComboPressEvent ==
  \E k \in ComboMods \cup ComboKeys :
    ComboEvents < MaxComboEvents /\ OnPress(k)
ComboReleaseEvent ==
  \E k \in ComboMods : ComboEvents < MaxComboEvents /\ OnRelease(k)
ComboTick == ComboEvents < MaxComboEvents /\ Tick(1, MaxComboEvents)

NextCombo ==
  \/ ComboPressEvent
  \/ ComboReleaseEvent
  \/ ComboTick
  \/ IdxStep
  \/ FinStep
  \/ RollStep
  \/ KeyStep

SpecCombo == Init /\ [][NextCombo]_vars

\* SpecWatch: a typing key and the left button against the watchdog, with no
\* stop().  The listeners handle one event at a time; time stands still
\* while they do and while a poll of the watchdog is due or under way, and
\* goes on in jumps longer than the typing gap.  The watchdog is scheduled
\* fairly and interleaves with the listeners step by step.
WatchQuiet == pc["ptr"] = "idle" /\ pc["key"] = "idle"

WatchPressEvent ==
  WatchQuiet /\ nkey + nptr < MaxWatchEvents /\ OnPress(KeyCode("a"))
WatchClickEvent ==
  \E pt \in ConcPoints, pressed \in BOOLEAN :
    WatchQuiet /\ nkey + nptr < MaxWatchEvents /\ OnClick("left", pt, pressed)
WatchJump ==
  /\ WatchQuiet
  /\ WdPrompt
  /\ Tick(TYPING_GAP + 1, MaxWatchJumps * (TYPING_GAP + 1))
WdFinStep == FinLock("wd") \/ FinBody("wd")

NextWatch ==
  \/ WatchPressEvent
  \/ WatchClickEvent
  \/ WatchJump
  \/ IdxStep
  \/ FinStep
  \/ PtrStep
  \/ TypeStep
  \/ WdStep

SpecWatch ==
  /\ InitWith({TRUE})
  /\ [][NextWatch]_vars
  /\ WF_vars(WatchJump)
  /\ WF_vars(WdStep)
  /\ WF_vars(WdFinStep)


\* ===================================================================== claims
IsGesture(a) ==
  a.kind \in {"left_click", "right_click", "middle_click", "drag"}

\* the press and release coordinates a gesture's description ends with
DescFrom(a) ==
  <<a.description[Len(a.description) - 7],
    a.description[Len(a.description) - 5]>>
DescTo(a) ==
  <<a.description[Len(a.description) - 3],
    a.description[Len(a.description) - 1]>>
Moved(a) == DescFrom(a) # DescTo(a)

Last(q) == q[Len(q)]
KindIs(k, a) == a.kind = k
IsTypingAction(a) == KindIs("typing", a)
IsHoldAction(a) == KindIs("modifier_hold", a)
IsClosed(h) == h.closed
IsUsed(h) == h.used
TypingActions == SelectSeq(actions, IsTypingAction)
HoldActions == SelectSeq(actions, IsHoldAction)
ClosedPhrases == SelectSeq(h_tokens, IsClosed)
UsedHolds == SelectSeq(h_holds, IsUsed)

C2_HoldIffUsed ==
  pc["key"] = "idle" =>
    /\ Len(HoldActions) = Len(UsedHolds)
    /\ \A i \in DOMAIN HoldActions :
         /\ i \in DOMAIN UsedHolds
         /\ ToSet(HoldActions[i].description) \ {"+", " held"}
              = UsedHolds[i].mods
    /\ active_mod_block # <<>> =>
         /\ active_mod_block[1].used = h_used
         /\ active_mod_block[1].mods = ToSet(CurrentModifiers)
    /\ ~h_nonmod => actions = <<>>

\* C2 witness: a used span was recorded, the span opened right after it
\* ended unused and left no Action.
C2_Witness ==
  /\ pc["key"] = "idle"
  /\ Len(h_holds) = 2
  /\ h_holds[1].used /\ ~h_holds[2].used
  /\ Len(HoldActions) = 1
  /\ active_mod_block # <<>>

\* C3: once stop() has returned no hold is pending, and a hold that was
\* pending and used when stop() was called has its modifier_hold Action.
C3_StopClosesHold ==
  pc["main"] = "done" =>
    /\ active_mod_block = <<>>
    /\ Len(HoldActions) =
         Len(UsedHolds) + (IF h_used /\ CurrentModifiers # <<>> THEN 1 ELSE 0)

\* C4: two consecutive typing tokens more than TYPING_GAP apart are never in
\* the same typing Action (each closed phrase is one typing Action).
C4_GapSplitsPhrase ==
  \A k \in DOMAIN h_tokens :
    h_tokens[k].closed =>
      \A i \in 1..(Len(h_tokens[k].times) - 1) :
        h_tokens[k].times[i + 1] - h_tokens[k].times[i] <= TYPING_GAP

\* C5: two consecutive typing tokens less than TYPING_GAP apart, with no
\* click release or key combo between them, are in the same phrase.
C5_NoSplitWithinGap ==
  \A k \in 1..(Len(h_tokens) - 1) :
    h_tokens[k + 1].times[1] - Last(h_tokens[k].times) >= TYPING_GAP

RECURSIVE Flatten(_)
Flatten(phrases) ==
  IF phrases = <<>> THEN <<>>
  ELSE phrases[1].tokens \o Flatten(Tail(phrases))

AppendPending ==
  \/ pc["key"] \in {"type_lock", "type_open", "type_append"}
  \/ pc["key"] \in {"idx_read", "idx_load", "idx_store"}
       /\ loc["key"].ret = "type_open"

\* C6: the typing Actions of the log are, in order, the closed phrases, each
\* described by "typed: '", its tokens in arrival order, "'"; the tokens of
\* all phrases in order are the tokens received, none lost, doubled or moved;
\* and outside the lock the token list is the open phrase.
C6_PhraseIsItsTokens ==
  /\ Len(TypingActions) = Len(ClosedPhrases)
  /\ \A i \in DOMAIN TypingActions :
       /\ i \in DOMAIN ClosedPhrases
       /\ TypingActions[i].description
            = <<"typed: '">> \o ClosedPhrases[i].tokens \o <<"'">>
  /\ IF AppendPending
       THEN Flatten(h_tokens) \o <<Last(h_arrived)>> = h_arrived
       ELSE Flatten(h_tokens) = h_arrived
  /\ typing_lock = "free" =>
       typed_chars = (IF h_tokens # <<>> /\ ~Last(h_tokens).closed
                      THEN Last(h_tokens).tokens ELSE <<>>)

\* C6 witness: the watchdog closed a phrase of two different tokens.
C6_Witness ==
  /\ Len(actions) = 1
  /\ actions[1].description = <<"typed: '", "a", "\n", "'">>
  /\ pc["wd"] = "loop"
  /\ pc["main"] = "idle"

\* C7 as stated: a typing Action ends at its last token's time, and its end
\* capture is requested at that offset.
C7_EndIsLastToken ==
  \A i \in DOMAIN TypingActions \cap DOMAIN ClosedPhrases :
    /\ TypingActions[i].end = Last(ClosedPhrases[i].times) - origin
    /\ <<TypingActions[i].ss_idx, "end",
         Last(ClosedPhrases[i].times) - origin>> \in ToSet(ss_requests)

\* C7 as amended: a typing Action starts at its first token's time and ends
\* at the time stamp handed to the finalization that closed it; its end
\* capture is requested at that same offset.
C7_EndIsFinalizeTime ==
  \A i \in DOMAIN TypingActions \cap DOMAIN ClosedPhrases :
    /\ TypingActions[i].start = ClosedPhrases[i].times[1] - origin
    /\ TypingActions[i].end = ClosedPhrases[i].fin - origin
    /\ <<TypingActions[i].ss_idx, "end", ClosedPhrases[i].fin - origin>>
         \in ToSet(ss_requests)

\* C7 witness: a phrase closed later than its last token.
C7_Witness ==
  /\ Len(TypingActions) = 1 /\ Len(ClosedPhrases) = 1
  /\ TypingActions[1].end > Last(ClosedPhrases[1].times) - origin

\* C8: a _finalize_typing call that follows a completed one with no token
\* appended in between changes neither the log, the request queue, the index
\* counter nor the phrase; any call appends at most one Action.
C8_FinalizeIdempotent ==
  [][\A t \in Tasks :
       (FinLock(t) \/ FinBody(t)) =>
         /\ Len(actions') <= Len(actions) + 1
         /\ h_fin >= 1 =>
              UNCHANGED <<actions, ss_requests, ss_idx, typing>>]_vars

\* C8 witness: two calls completed after the last token, one typing Action.
C8_Witness ==
  /\ h_fin = 2
  /\ Len(h_tokens) = 1
  /\ Len(TypingActions) = 1

\* C9: no two calls of _next_idx return the same value, and the Actions of
\* the log have pairwise distinct ss_idx.
C9_IndicesDistinct ==
  /\ ~h_dup
  /\ \A i, j \in DOMAIN actions :
       i # j => actions[i].ss_idx # actions[j].ss_idx

\* the state a release with no matching press must leave alone
AllButEvents ==
  <<clock, origin, debug, tracker, pc, loc, p_ev, k_ev, held, nkey, hist,
    hist2>>

\* C10, between events: a gesture is pending for a button exactly when the
\* button's latest press is unmatched, and it holds that press's point,
\* time and modifier set and an index _next_idx returned.
C10_PendingIsLatestPress ==
  pc["ptr"] = "idle" =>
    \A b \in TrackedButtons :
      /\ click_start[b] = <<>> <=> h_press[b] = <<>>
      /\ click_start[b] # <<>> =>
           /\ click_start[b][1].x = h_press[b][1].x
           /\ click_start[b][1].y = h_press[b][1].y
           /\ click_start[b][1].t0 = h_press[b][1].t
           /\ click_start[b][1].mods = h_press[b][1].mods
           /\ click_start[b][1].idx \in h_idx

\* C10, a release: one that matches takes that button's pending gesture and
\* no other, and the Action appended for it carries the press's point, time,
\* index and modifier set; any other release changes nothing.
C10_ReleaseStep ==
  /\ \A b \in Buttons, pt \in Points :
       OnClick(b, pt, FALSE) =>
         IF b \in TrackedButtons /\ h_press[b] # <<>>
         THEN /\ p_ev'.g = click_start[b]
              /\ click_start' = [click_start EXCEPT ![b] = <<>>]
         ELSE UNCHANGED AllButEvents
  /\ (pc["ptr"] = "click_append" /\ pc'["ptr"] = "idle") =>
       LET a == Last(actions')
           g == p_ev.g[1]
           h == h_consumed[1]
       IN /\ a.start = h.t - origin
          /\ a.ss_idx = g.idx
          /\ DescFrom(a) = <<ToString(h.x), ToString(h.y)>>
          /\ ToSet(SubSeq(a.description, 1, Len(a.description) - 10))
               \ {"+", " "} = h.mods
          /\ a.end = loc["ptr"].now - origin

\* C10: a release finalizes exactly the most recent unmatched press of its
\* button and consumes it; any other release is a no-op.
C10_ReleaseMatchesLatestPress ==
  []C10_PendingIsLatestPress /\ [][C10_ReleaseStep]_vars

\* C10 witness: two presses of one button, then the release: one Action, for
\* the second press; then nothing pending.
C10_Witness ==
  /\ nptr = 3
  /\ Len(actions) = 1
  /\ DescFrom(actions[1]) = <<"50", "50">>
  /\ actions[1].ss_idx = 2
  /\ click_start["left"] = <<>>
  /\ pc["ptr"] = "idle"

\* C11: every Action of the log starts no later than it ends.
C11_StartBeforeEnd ==
  \A i \in DOMAIN actions : actions[i].start <= actions[i].end

\* the keyboard listener is inside the combo branch of on_press
InCombo ==
  /\ pc["key"] \in {"fin_lock", "fin_body", "idx_read", "idx_load",
                    "idx_store", "combo_append"}
  /\ loc["key"].ret = "combo_append"

\* C12, the log: with the keyboard listener alone, every typing Action is
\* immediately followed by the key_combo Action of the press that closed it,
\* which happened at the typing Action's end.
C12_TypingThenCombo ==
  \A i \in DOMAIN actions :
    actions[i].kind = "typing" =>
      IF i < Len(actions)
      THEN /\ actions[i + 1].kind = "key_combo"
           /\ actions[i + 1].start = actions[i].end
      ELSE pc["key"] \in {"idx_read", "idx_load", "idx_store", "combo_append"}

\* C12, the steps of a combo press: its key is no token; an open phrase is
\* closed by appending its typing Action; nothing else is logged until the
\* key_combo Action is appended last, and then no phrase is open.
C12_ComboStep ==
  /\ \A k \in ComboKeys :
       (OnPress(k) /\ IsComboContext(CurrentModifiers)) =>
         /\ InCombo'
         /\ UNCHANGED <<h_arrived, typing, actions>>
  /\ (InCombo /\ pc["key"] = "fin_lock" /\ pc'["key"] # "fin_lock") =>
       /\ typing_start # None => pc'["key"] = "fin_body"
       /\ UNCHANGED <<actions, typing>>
  /\ (InCombo /\ pc["key"] = "fin_body" /\ pc'["key"] # "fin_body") =>
       /\ Len(actions') = Len(actions) + 1
       /\ SubSeq(actions', 1, Len(actions)) = actions
       /\ Last(actions').kind = "typing"
       /\ Last(actions').description
            = <<"typed: '">> \o typed_chars \o <<"'">>
       /\ typing_start' = None /\ typed_chars' = <<>>
  /\ (InCombo /\ pc["key"] \in {"idx_read", "idx_load", "idx_store"}) =>
       UNCHANGED <<actions, typing>>
  /\ (pc["key"] = "combo_append" /\ pc'["key"] = "idle") =>
       /\ Len(actions') = Len(actions) + 1
       /\ SubSeq(actions', 1, Len(actions)) = actions
       /\ Last(actions').kind = "key_combo"
       /\ typing_start' = None /\ typed_chars' = <<>>
       /\ h_arrived' = h_arrived

\* C12: a combo press over an open phrase logs the typing Action and right
\* after it the key_combo Action, adds its key to no phrase and leaves no
\* phrase open.
C12_ComboClosesPhrase ==
  []C12_TypingThenCombo /\ [][C12_ComboStep]_vars

\* C12 witness: 'c' typed, command pressed, 'c' pressed: typing, key_combo.
C12_Witness ==
  /\ pc["key"] = "idle"
  /\ Len(actions) = 2
  /\ actions[1].kind = "typing"
  /\ actions[1].description = <<"typed: '", "c", "'">>
  /\ actions[2].kind = "key_combo"
  /\ actions[2].description = <<"command", "+", "c">>
  /\ h_arrived = <<"c">>
  /\ typing_start = None

\* the literal names of the non-modifier keys of SpecCombo
C13_Name(k) ==
  IF k = KeyCode("c") THEN "c"
  ELSE IF k = Key("enter") THEN "enter"
  ELSE IF k = Key("f1") THEN "f1" ELSE "<63>"

\* C13, the log: after exactly press m, press k, release m, for one combo
\* modifier m, the log is a key_combo "m+<name>" with start = end followed
\* by a modifier_hold "m held".
C13_ComboThenHoldLog ==
  \A m \in {"ctrl", "command", "option"} :
    (/\ pc["key"] = "idle"
     /\ nkey = 3
     /\ held = {}
     /\ h_holds = <<[mods |-> {m}, used |-> TRUE]>>) =>
      /\ Len(actions) = 2
      /\ actions[1].kind = "key_combo"
      /\ Len(actions[1].description) = 3
      /\ actions[1].description[1] = m
      /\ actions[1].description[2] = "+"
      /\ actions[1].description[3] \in {C13_Name(k) : k \in ComboKeys}
      /\ actions[1].start = actions[1].end
      /\ actions[2].kind = "modifier_hold"
      /\ actions[2].description = <<m, " held">>
      /\ active_mod_block = <<>>

\* C13, the key: the key_combo Action a press appends ends with the literal
\* name of the key pressed, after the held modifiers joined by "+".
C13_ComboNamesKey ==
  (pc["key"] = "combo_append" /\ pc'["key"] = "idle") =>
    LET d == Last(actions').description
    IN /\ Last(d) = C13_Name(k_ev.key)
       /\ SubSeq(d, 1, Len(d) - 1)
            = Join("+", CurrentModifiers) \o <<"+">>
       /\ Last(actions').start = Last(actions').end

\* C13: press m, press k, release m on an idle tracker appends a key_combo
\* "m+k" with start = end and then a modifier_hold "m held", and nothing
\* else.
C13_ComboThenHold ==
  []C13_ComboThenHoldLog /\ [][C13_ComboNamesKey]_vars

\* C13 witness: command, c, command released: "command+c", "command held".
C13_Witness ==
  /\ pc["key"] = "idle"
  /\ nkey = 3
  /\ Len(actions) = 2
  /\ actions[1].description = <<"command", "+", "c">>
  /\ actions[2].description = <<"command", " held">>

\* a left_click Action whose press and release points are equal
IsStillLeftClick(a) ==
  a.kind = "left_click" /\ DescFrom(a) = DescTo(a)

\* C14 as stated: a left_click whose release point equals its press point
\* has start = end.
C14_StillClickIsInstant ==
  \A i \in DOMAIN actions :
    IsStillLeftClick(actions[i]) => actions[i].start = actions[i].end

\* C14 as amended, the steps of a matched left release at the press point:
\* the release reads the clock; the step that finishes it appends exactly one
\* Action, a left_click described by the point twice, which starts at the
\* press's time and ends at the release's time, so start <= end.
C14_StillClickStep ==
  /\ \A pt \in Points :
       (OnClick("left", pt, FALSE) /\ h_press["left"] # <<>>) =>
         loc'["ptr"].now = clock
  /\ (/\ pc["ptr"] = "click_append" /\ pc'["ptr"] = "idle"
      /\ p_ev.button = "left"
      /\ p_ev.x = h_consumed[1].x /\ p_ev.y = h_consumed[1].y) =>
       /\ Len(actions') = Len(actions) + 1
       /\ SubSeq(actions', 1, Len(actions)) = actions
       /\ LET a == Last(actions')
          IN /\ a.kind = "left_click"
             /\ DescFrom(a) = <<ToString(p_ev.x), ToString(p_ev.y)>>
             /\ DescTo(a) = DescFrom(a)
             /\ a.start = h_consumed[1].t - origin
             /\ a.end = loc["ptr"].now - origin
             /\ a.start <= a.end
             /\ a.end <= clock - origin

\* C14 as amended: a left press and its release at the same point yield one
\* left_click Action spanning from the press to the release.
C14_StillClickSpansPressToRelease == [][C14_StillClickStep]_vars

\* C14 witness: left press at (10,10), release there half a second later.
C14_Witness ==
  /\ pc["ptr"] = "idle"
  /\ Len(actions) = 1
  /\ IsStillLeftClick(actions[1])
  /\ DescFrom(actions[1]) = <<"10", "10">>
  /\ actions[1].start = 0
  /\ actions[1].end = 1

\* the pointer listener is handling a press
InPress ==
  \/ pc["ptr"] \in {"click_capture", "click_store"}
  \/ pc["ptr"] \in {"idx_read", "idx_load", "idx_store"}

\* C15, the log: with one event handled at a time and click releases the
\* only closers, every typing Action is immediately followed by the gesture
\* Action of the release that closed it.
C15_TypingThenClick ==
  \A i \in DOMAIN actions :
    actions[i].kind = "typing" =>
      IF i < Len(actions)
      THEN /\ IsGesture(actions[i + 1])
           /\ actions[i + 1].end = actions[i].end
      ELSE pc["ptr"] = "click_append"

\* C15, the steps: a matched release first enters _finalize_typing, which
\* closes an open phrase by appending its typing Action; the gesture Action
\* is appended after it and then no phrase is open; a press changes neither
\* the phrase nor the log.
C15_ButtonStep ==
  /\ \A b \in TrackedButtons, pt \in Points :
       (OnClick(b, pt, FALSE) /\ h_press[b] # <<>>) =>
         /\ pc'["ptr"] = "fin_lock"
         /\ UNCHANGED <<actions, typing>>
  /\ (pc["ptr"] = "fin_lock" /\ pc'["ptr"] # "fin_lock") =>
       /\ typing_start # None => pc'["ptr"] = "fin_body"
       /\ UNCHANGED <<actions, typing>>
  /\ (pc["ptr"] = "fin_body" /\ pc'["ptr"] # "fin_body") =>
       /\ Len(actions') = Len(actions) + 1
       /\ SubSeq(actions', 1, Len(actions)) = actions
       /\ Last(actions').kind = "typing"
       /\ typing_start' = None /\ typed_chars' = <<>>
  /\ (pc["ptr"] = "click_append" /\ pc'["ptr"] = "idle") =>
       /\ Len(actions') = Len(actions) + 1
       /\ SubSeq(actions', 1, Len(actions)) = actions
       /\ IsGesture(Last(actions'))
       /\ typing_start' = None /\ typed_chars' = <<>>
  /\ \A b \in Buttons, pt \in Points :
       OnClick(b, pt, TRUE) => UNCHANGED <<actions, typing>>
  /\ (InPress /\ pc'["ptr"] # pc["ptr"]) => UNCHANGED <<actions, typing>>

\* C15: a matched release over an open phrase logs the typing Action before
\* the gesture Action and leaves no phrase open; a press alone closes
\* nothing.
C15_ReleaseClosesPhrase ==
  []C15_TypingThenClick /\ [][C15_ButtonStep]_vars

\* C15 witness: 'a' typed, left pressed and released: typing, left_click.
C15_Witness ==
  /\ pc["ptr"] = "idle"
  /\ nkey = 1 /\ nptr = 2
  /\ Len(actions) = 2
  /\ actions[1].description = <<"typed: '", "a", "'">>
  /\ actions[2].kind = "left_click"
  /\ typing_start = None

\* C16, the steps of stop(): none of them touches a pending gesture; the
\* only step that may append a typing Action is the body of its
\* _finalize_typing call and the only one that may append a modifier_hold is
\* its rollover, each taken once and appending at most one Action; no other
\* step of stop() changes the log.
C16_StopStep ==
  (pc'["main"] # pc["main"]) =>
    /\ click_start' = click_start
    /\ \/ actions' = actions
       \/ /\ pc["main"] \in {"fin_body", "roll"}
          /\ Len(actions') = Len(actions) + 1
          /\ SubSeq(actions', 1, Len(actions)) = actions
          /\ Last(actions').kind =
               (IF pc["main"] = "fin_body" THEN "typing" ELSE "modifier_hold")

\* C16, during and after stop(): a press that is unmatched is still
\* pending, and the pointer listener, which alone appends gesture Actions, is
\* at rest.
C16_PendingDropped ==
  pc["main"] # "idle" =>
    /\ pc["ptr"] = "idle"
    /\ \A b \in TrackedButtons :
         h_press[b] # <<>> => click_start[b] # <<>>

\* C16: stop() appends at most one typing and one modifier_hold Action and
\* never finalizes a pending gesture.
C16_StopDropsGesture ==
  []C16_PendingDropped /\ [][C16_StopStep]_vars

\* C16 witness: 'a' typed, left pressed, stop(): the log is the typing
\* Action alone and the press is still pending.
C16_Witness ==
  /\ pc["main"] = "done"
  /\ nkey = 1 /\ nptr = 1
  /\ clock = origin
  /\ click_start["left"] # <<>>
  /\ Len(actions) = 1
  /\ actions[1].kind = "typing"

\* the tracked modifier set holds ctrl, command or option
C17_ComboHeld == ctrl_down \/ command_down \/ option_down

\* the keys of SpecCombo that type a token, and the token
C17_TypingKeys == {KeyCode("c"), Key("enter")}
C17_Token(k) == IF k = KeyCode("c") THEN "c" ELSE "\n"

\* C17, the steps: a non-modifier press takes the combo branch exactly when
\* ctrl, command or option is tracked as held; otherwise a printable or
\* special key takes the typing branch, which appends the key's token to
\* the phrase, opening one if none is open, and logs nothing, and any other
\* key is ignored; a key_combo Action is appended only by the combo branch,
\* which always appends one.
C17_PressStep ==
  /\ \A k \in ComboKeys :
       OnPress(k) =>
         IF C17_ComboHeld
         THEN InCombo' /\ UNCHANGED h_arrived
         ELSE IF k \in C17_TypingKeys
         THEN /\ pc'["key"] = "type_lock"
              /\ k_ev'.key = k
              /\ h_arrived' = Append(h_arrived, C17_Token(k))
         ELSE UNCHANGED <<pc, actions, typing, h_arrived>>
  /\ (AppendPending /\ pc'["key"] # pc["key"]) =>
       /\ actions' = actions
       /\ ~C17_ComboHeld
       /\ typing_start' # None
       /\ pc'["key"] = "idle" =>
            /\ typed_chars' = Append(typed_chars, C17_Token(k_ev.key))
            /\ typing_start = None => typed_chars = <<>>
  /\ (InCombo /\ pc'["key"] = "idle") =>
       /\ Len(actions') = Len(actions) + 1
       /\ Last(actions').kind = "key_combo"
  /\ (/\ Len(actions') > Len(actions)
      /\ Last(actions').kind = "key_combo") =>
       /\ pc["key"] = "combo_append"
       /\ C17_ComboHeld

\* C17: shift alone or no modifier makes a typing key a token and no
\* key_combo; a key_combo is appended if and only if ctrl, command or option
\* is in the tracked set when the non-modifier key is pressed.
C17_ShiftIsTyping == [][C17_PressStep]_vars

\* C17 witness: shift held, 'c' pressed: the phrase is 'c', the log empty.
C17_Witness ==
  /\ pc["key"] = "idle"
  /\ shift_down /\ ~C17_ComboHeld
  /\ typed_chars = <<"c">>
  /\ typing_start # None
  /\ actions = <<>>

\* task t is between the read and the write of an update of shared state:
\* of the capture-index counter (lines 216-217), or of the pending phrase
\* (lines 397-402 and 425-444)
InUpdate(t) ==
  pc[t] \in {"idx_load", "idx_store", "fin_body", "type_open", "type_append"}

\* C18: no two of the pointer listener, the keyboard listener and the
\* watchdog are inside an update of the shared state at the same time.
C18_OneExclusionDomain ==
  \A t1, t2 \in {"ptr", "key", "wd"} :
    t1 # t2 => ~(InUpdate(t1) /\ InUpdate(t2))

C20_OpenAndQuiet ==
  /\ WatchQuiet
  /\ nkey + nptr = MaxWatchEvents
  /\ typing_start # None
  /\ typed_chars # <<>>
  /\ clock + TYPING_GAP + 1 <= origin + MaxWatchJumps * (TYPING_GAP + 1)

\* every phrase typed has been closed and has its typing Action
C20_Closed ==
  /\ typing_start = None
  /\ Len(TypingActions) = Len(h_tokens)

\* C20: a phrase that is open when input ends is eventually closed and its
\* typing Action appended, the watchdog being scheduled fairly and stop()
\* not called.
C20_WatchdogCloses == C20_OpenAndQuiet ~> C20_Closed


\* C21: for each of ctrl, command, option and shift the tracker's flag is
\* true exactly when at least one physical key of that modifier, left or
\* right, is down.
C21_TrackedIsHeld ==
  /\ ctrl_down = (CtrlKeys \cap held # {})
  /\ command_down = (CmdKeys \cap held # {})
  /\ option_down = (AltKeys \cap held # {})
  /\ shift_down = (ShiftKeys \cap held # {})


\* the capture indices held by the log, the pending gestures and the open
\* phrase
C22_IndicesInUse ==
  {actions[i].ss_idx : i \in DOMAIN actions}
    \cup {click_start[b][1].idx : b \in {c \in TrackedButtons :
                                           click_start[c] # <<>>}}
    \cup (IF typing_id = None THEN {} ELSE {typing_id})

\* the hold pending between key handlers is the tracked modifier set's
C22_PendingMatchesTracked ==
  (pc["key"] = "idle" /\ pc["main"] = "idle") =>
    /\ Len(active_mod_block) <= 1
    /\ (active_mod_block # <<>>) = (CurrentModifiers # <<>>)
    /\ active_mod_block # <<>> =>
         /\ active_mod_block[1].mods = ToSet(CurrentModifiers)
         /\ active_mod_block[1].used = h_used

\* the pending hold's capture index is no other Action's
C22_PendingIndexFresh ==
  (pc["key"] = "idle" /\ pc["main"] = "idle" /\ active_mod_block # <<>>) =>
    /\ active_mod_block[1].idx < ss_idx
    /\ active_mod_block[1].idx \notin C22_IndicesInUse

\* C22: after every completed key press or release handler and before
\* stop(), a hold is pending exactly when the tracked modifier set is not
\* empty, its set is the tracked set, there is at most one, and a newly
\* opened hold has a fresh capture index and used flag false.
C22_HoldFollowsTracked ==
  C22_PendingMatchesTracked /\ C22_PendingIndexFresh


\* no phrase is open: start, last-token time and capture index unset, no
\* token
C23_NoPhrase ==
  /\ typing_start = None /\ last_key_ts = None /\ typing_id = None
  /\ typed_chars = <<>>

\* one phrase is open: all three set, at least one token, and the start no
\* later than the last token
C23_OnePhrase ==
  /\ typing_start # None /\ last_key_ts # None /\ typing_id # None
  /\ typed_chars # <<>>
  /\ typing_start <= last_key_ts

\* C23: whenever no task holds the typing lock, either no phrase is open or
\* exactly one is, under every interleaving of key events, click releases,
\* the watchdog and stop().
C23_PendingPhraseConsistent ==
  typing_lock = "free" => (C23_NoPhrase \/ C23_OnePhrase)

\* C23 witness: a phrase is open with two tokens a gap apart and the lock
\* is free, while the watchdog, having found the first token stale, is about
\* to take the lock and stop() has not been called.
C23_Witness ==
  /\ typing_lock = "free"
  /\ C23_OnePhrase
  /\ Len(typed_chars) = 2
  /\ typing_start < last_key_ts
  /\ pc["wd"] = "fin_lock"
  /\ pc["main"] = "idle"

=============================================================================
